---- MODULE Spec2Model ----
(***************************************************************************)
(* Model of atomman.core.System (src/atomman/core/System.py), followed by  *)
(* atomman.cluster.BondAngleMap and atomman.library.record.RelaxedCrystal. *)
(*                                                                         *)
(* Python objects live on a heap: Box, Atoms and dict objects are          *)
(* addressed by identifiers, and a System holds references to them, so     *)
(* that aliasing between Systems is visible.  numpy floating point values  *)
(* are modelled as exact rationals <<numerator, denominator>> with a       *)
(* positive denominator and no common factor.                              *)
(***************************************************************************)
EXTENDS Integers, Sequences, FiniteSets, TLC

(***************************************************************************)
(* Exact rational arithmetic standing in for numpy float64 arithmetic.     *)
(***************************************************************************)
Abs(n) == IF n < 0 THEN -n ELSE n

RECURSIVE GCD(_, _)
GCD(a, b) == IF b = 0 THEN a ELSE GCD(b, a % b)

Rat(n, d) ==
    LET s == IF d < 0 THEN -1 ELSE 1
        g == GCD(Abs(n), Abs(d))
    IN  <<(s * n) \div g, (s * d) \div g>>

RInt(n) == <<n, 1>>
RZero == <<0, 1>>
ROne == <<1, 1>>
RHalf == <<1, 2>>

\* sums and products cancel common factors before multiplying
RAdd(a, b) ==
    LET g == GCD(a[2], b[2])
    IN  Rat(a[1] * (b[2] \div g) + b[1] * (a[2] \div g), (a[2] \div g) * b[2])
RNeg(a) == <<-a[1], a[2]>>
RSub(a, b) == RAdd(a, RNeg(b))
RMul(a, b) ==
    LET g1 == GCD(Abs(a[1]), b[2])
        g2 == GCD(Abs(b[1]), a[2])
    IN  <<(a[1] \div g1) * (b[1] \div g2), (a[2] \div g2) * (b[2] \div g1)>>
RRecip(a) == IF a[1] < 0 THEN <<-a[2], -a[1]>> ELSE <<a[2], a[1]>>
RDiv(a, b) == RMul(a, RRecip(b))
RLt(a, b) == RSub(a, b)[1] < 0
RLe(a, b) == RSub(a, b)[1] <= 0
\* np.floor: the largest integer not above a
RFloor(a) == RInt(a[1] \div a[2])

(***************************************************************************)
(* Natural numbers beyond the machine range, as little-endian sequences of *)
(* base-10000 digits without leading zeros; used where float64 squares of  *)
(* lengths are compared.                                                   *)
(***************************************************************************)
Base == 10000

RECURSIVE BigOf(_)
BigOf(n) == IF n = 0 THEN <<>> ELSE <<n % Base>> \o BigOf(n \div Base)

RECURSIVE BigAddC(_, _, _)
BigAddC(x, y, carry) ==
    IF x = <<>> /\ y = <<>>
    THEN BigOf(carry)
    ELSE LET dx == IF x = <<>> THEN 0 ELSE Head(x)
             dy == IF y = <<>> THEN 0 ELSE Head(y)
             t == dx + dy + carry
         IN  <<t % Base>> \o BigAddC(IF x = <<>> THEN x ELSE Tail(x),
                                     IF y = <<>> THEN y ELSE Tail(y), t \div Base)
BigAdd(x, y) == BigAddC(x, y, 0)

\* x times one digit m
RECURSIVE BigMulDigit(_, _, _)
BigMulDigit(x, m, carry) ==
    IF x = <<>> THEN BigOf(carry)
    ELSE LET t == Head(x) * m + carry
         IN  <<t % Base>> \o BigMulDigit(Tail(x), m, t \div Base)

RECURSIVE BigMul(_, _)
BigMul(x, y) ==
    IF y = <<>> \/ x = <<>> THEN <<>>
    ELSE LET rest == BigMul(x, Tail(y))
             low == IF Head(y) = 0 THEN <<>> ELSE BigMulDigit(x, Head(y), 0)
         IN  BigAdd(low, IF rest = <<>> THEN <<>> ELSE <<0>> \o rest)

RECURSIVE BigLeFrom(_, _, _)
BigLeFrom(x, y, k) ==
    IF k = 0 THEN TRUE
    ELSE IF x[k] # y[k] THEN x[k] < y[k] ELSE BigLeFrom(x, y, k - 1)
BigLe(x, y) ==
    IF Len(x) # Len(y) THEN Len(x) < Len(y) ELSE BigLeFrom(x, y, Len(x))

BigSq(n) == BigMul(BigOf(Abs(n)), BigOf(Abs(n)))

RECURSIVE ISqrt(_, _)
ISqrt(n, k) == IF k * k >= n THEN k ELSE ISqrt(n, k + 1)
\* square root of a rational that is a perfect square
RSqrt(a) == <<ISqrt(a[1], 0), ISqrt(a[2], 0)>>

(***************************************************************************)
(* 3-vectors and 3x3 matrices (rows are avect, bvect, cvect).              *)
(***************************************************************************)
Axes == 1..3

VZero == <<RZero, RZero, RZero>>

\* the element of a one-element set; "Only({e(x) : x \in {d}})" evaluates d
\* once and names its value x in e
Only(S) == CHOOSE x \in S : TRUE

\* the array <<F(P[1]), ..., F(P[Len(P)])>>
MapRows(F(_), P) ==
    LET RECURSIVE upto(_)
        upto(k) == IF k = 0 THEN <<>> ELSE Append(upto(k - 1), F(P[k]))
    IN  upto(Len(P))
\* (vectors are written as explicit tuples, which are evaluated once)
VAdd(u, v) == <<RAdd(u[1], v[1]), RAdd(u[2], v[2]), RAdd(u[3], v[3])>>
VSub(u, v) == <<RSub(u[1], v[1]), RSub(u[2], v[2]), RSub(u[3], v[3])>>
VNeg(u) == <<RNeg(u[1]), RNeg(u[2]), RNeg(u[3])>>
VMul(r, u) == <<RMul(r, u[1]), RMul(r, u[2]), RMul(r, u[3])>>
VDot(u, v) == RAdd(RAdd(RMul(u[1], v[1]), RMul(u[2], v[2])), RMul(u[3], v[3]))

\* |u|^2 <= c^2, for a rational c >= 0, without forming the squares in
\* machine integers: both sides are multiplied by (u1d * u2d * u3d * cd)^2
NormLe(u, c) ==
    LET term(i, j, k) ==
            BigMul(BigSq(u[i][1]), BigMul(BigSq(u[j][2]), BigMul(BigSq(u[k][2]), BigSq(c[2]))))
        lhs == BigAdd(BigAdd(term(1, 2, 3), term(2, 1, 3)), term(3, 1, 2))
        rhs == BigMul(BigSq(c[1]), BigMul(BigSq(u[1][2]), BigMul(BigSq(u[2][2]), BigSq(u[3][2]))))
    IN  BigLe(lhs, rhs)

\* the length of u = k * (m1, m2, m3) with m a vector of coprime integers
\* of integer length: |u| = k * |m|
VNorm(u) ==
    LET d == (u[1][2] * u[2][2]) * u[3][2]
        n(i) == Abs(u[i][1]) * (d \div u[i][2])
        g == GCD(GCD(n(1), n(2)), n(3))
        m2 == (n(1) \div g) * (n(1) \div g) + (n(2) \div g) * (n(2) \div g)
                + (n(3) \div g) * (n(3) \div g)
    IN  IF g = 0 THEN RZero ELSE RMul(Rat(g, d), RInt(ISqrt(m2, 0)))
\* numpy row-vector . matrix
VDotMj(u, M, j) ==
    RAdd(RAdd(RMul(u[1], M[1][j]), RMul(u[2], M[2][j])), RMul(u[3], M[3][j]))
VDotM(u, M) == <<VDotMj(u, M, 1), VDotMj(u, M, 2), VDotMj(u, M, 3)>>

Det(M) ==
    RAdd(RSub(RMul(M[1][1], RSub(RMul(M[2][2], M[3][3]), RMul(M[2][3], M[3][2]))),
              RMul(M[1][2], RSub(RMul(M[2][1], M[3][3]), RMul(M[2][3], M[3][1])))),
         RMul(M[1][3], RSub(RMul(M[2][1], M[3][2]), RMul(M[2][2], M[3][1]))))

Nxt(i) == (i % 3) + 1

\* cofactor of entry (i, j), by the cyclic rule
Cof(M, i, j) ==
    RSub(RMul(M[Nxt(i)][Nxt(j)], M[Nxt(Nxt(i))][Nxt(Nxt(j))]),
         RMul(M[Nxt(i)][Nxt(Nxt(j))], M[Nxt(Nxt(i))][Nxt(j)]))

\* np.linalg.inv of a non-singular matrix
InvWith(M, rdet) ==
    << <<RMul(Cof(M, 1, 1), rdet), RMul(Cof(M, 2, 1), rdet), RMul(Cof(M, 3, 1), rdet)>>,
       <<RMul(Cof(M, 1, 2), rdet), RMul(Cof(M, 2, 2), rdet), RMul(Cof(M, 3, 2), rdet)>>,
       <<RMul(Cof(M, 1, 3), rdet), RMul(Cof(M, 2, 3), rdet), RMul(Cof(M, 3, 3), rdet)>> >>
Inv(M) == Only({InvWith(M, rdet) : rdet \in {RRecip(Det(M))}})

V(x, y, z) == <<RInt(x), RInt(y), RInt(z)>>
\* a vector given in tenths
VT(x, y, z) == <<Rat(x, 10), Rat(y, 10), Rat(z, 10)>>

(***************************************************************************)
(* Bounds and inputs.                                                      *)
(***************************************************************************)
\* number of state-changing calls (constructions included) in one run
MaxOps == 3
\* number of wrap calls in one run (each one may enlarge the box)
MaxWraps == 1

SysIds == {1, 2}
\* identifier of the objects created once, when "def __init__" is evaluated
DefaultId == 0

UnitBox == [vects |-> <<V(1, 0, 0), V(0, 1, 0), V(0, 0, 1)>>, origin |-> VZero]
Cubic10 == [vects |-> <<V(10, 0, 0), V(0, 10, 0), V(0, 0, 10)>>, origin |-> VZero]
\* a rotated, tilted cell with a shifted origin
SkewBox == [vects |-> <<V(3, 4, 0), V(-1, 7, 0), V(3, 4, 2)>>, origin |-> V(1, -1, 0)]
BoxInputs == {UnitBox, Cubic10, SkewBox}

DefaultAtoms == <<VZero>>
AtomsA == <<VT(1, 0, 0), VT(99, 0, 0)>>
AtomsB == <<VT(-5, 0, 0), VT(45, 0, 0), VT(27, 0, 0)>>
\* box-relative positions, for construction with scale=True
AtomsF == <<VT(1, 2, 5), VT(12, 7, 5)>>

PbcInputs == {<<TRUE, TRUE, TRUE>>, <<FALSE, TRUE, TRUE>>, <<TRUE, FALSE, TRUE>>,
              <<FALSE, FALSE, FALSE>>}

\* a value handed to the pbc setter: the entries and their type
Bools(v) == [dtype |-> "bool", ndim |-> 1, val |-> v]
Ints(v) == [dtype |-> "int", ndim |-> 1, val |-> v]

\* values that are not three booleans: integers, and two entries only
PbcArgs == {Bools(v) : v \in PbcInputs} \cup {Ints(<<1, 0, 1>>), Bools(<<TRUE, FALSE>>)}

\* keyword arguments of System(...); "default" stands for an omitted argument
CtorInputs ==
    { [atoms |-> "default", box |-> "default", pbc |-> Bools(<<TRUE, TRUE, TRUE>>),
       scale |-> FALSE, prop |-> "default"],
      [atoms |-> "A", box |-> "cubic", pbc |-> Bools(<<TRUE, TRUE, TRUE>>),
       scale |-> FALSE, prop |-> "default"],
      [atoms |-> "B", box |-> "cubic", pbc |-> Bools(<<TRUE, TRUE, TRUE>>),
       scale |-> FALSE, prop |-> "default"],
      [atoms |-> "B", box |-> "cubic", pbc |-> Bools(<<FALSE, TRUE, TRUE>>),
       scale |-> FALSE, prop |-> "fresh"],
      [atoms |-> "F", box |-> "skew", pbc |-> Bools(<<TRUE, FALSE, TRUE>>),
       scale |-> TRUE, prop |-> "fresh"],
      \* arguments that fail validation
      [atoms |-> "A", box |-> "notabox", pbc |-> Bools(<<TRUE, TRUE, TRUE>>),
       scale |-> TRUE, prop |-> "fresh"],
      [atoms |-> "notatoms", box |-> "cubic", pbc |-> Bools(<<TRUE, TRUE, TRUE>>),
       scale |-> FALSE, prop |-> "fresh"],
      [atoms |-> "F", box |-> "skew", pbc |-> Bools(<<TRUE, FALSE>>),
       scale |-> TRUE, prop |-> "fresh"],
      [atoms |-> "B", box |-> "cubic", pbc |-> Bools(<<TRUE, TRUE, TRUE>>),
       scale |-> FALSE, prop |-> "notadict"] }

\* the second System is built with every argument omitted, or with its own
\* objects
CtorInputs2 ==
    { kw \in CtorInputs : kw.atoms = "default" \/ (kw.atoms = "B" /\ kw.prop = "fresh") }

CtorInputsOf(s) == IF s = 1 THEN CtorInputs ELSE CtorInputs2

AtomsArg(name) ==
    CASE name = "A" -> AtomsA
      [] name = "B" -> AtomsB
      [] name = "F" -> AtomsF
      [] OTHER -> DefaultAtoms

BoxArg(name) ==
    CASE name = "cubic" -> Cubic10
      [] name = "skew" -> SkewBox
      [] OTHER -> UnitBox

VARIABLES
    boxes,    \* heap of Box objects: identifier -> [vects, origin]
    atoms,    \* heap of Atoms objects: identifier -> sequence of 'pos' rows
    props,    \* heap of dict objects: identifier -> (key -> value)
    systems,  \* constructed Systems: id -> [box, atoms, prop (references), pbc]
    last,     \* the call made last: [op, sys, arg, ret]
    nops,     \* number of calls made
    nwraps,   \* number of wrap calls made
    bondmap,  \* the BondAngleMap object: range parameters and table df
    tablefile,\* the file save_table writes and load_table reads
    iterator, \* the generator itersystem returned, and what it has yielded
    crystal   \* the RelaxedCrystal record object

vars == <<boxes, atoms, props, systems, last, nops, nwraps,
          bondmap, tablefile, iterator, crystal>>

\* the objects of atomman.cluster and atomman.library
library == <<bondmap, tablefile, iterator, crystal>>

EmptyDict == [k \in {} |-> 0]

\* Python's None and a value that is not None, as sequences of length 0 and 1
None == <<>>
Some(v) == <<v>>

\* no BondAngleMap has been constructed
NoBondAngleMap ==
    [exists |-> FALSE, rmin |-> None, rmax |-> None, rnum |-> None,
     thetamin |-> None, thetamax |-> None, thetanum |-> None, df |-> <<>>]

\* no table file has been written
NoFile == [exists |-> FALSE, lines |-> <<>>]

\* itersystem has not been called
NoIterator ==
    [exists |-> FALSE, copy |-> FALSE, started |-> FALSE, done |-> FALSE,
     index |-> 0, len |-> 0, rhi |-> <<0, 1>>, system |-> 0,
     coords |-> <<>>, yielded |-> <<>>]

\* no RelaxedCrystal has been constructed
NoRecord ==
    [exists |-> FALSE, model |-> None, name |-> None,
     values |-> None, ucell |-> None, built |-> <<>>]
NoCall == [op |-> "none", sys |-> 0, arg |-> <<>>, ret |-> <<>>]

\* self.box, self.atoms.view['pos'], self.pbc, self.prop of System s
box(s) == boxes[systems[s].box]
pos(s) == atoms[systems[s].atoms]
pbc(s) == systems[s].pbc
prop(s) == props[systems[s].prop]
natoms(s) == Len(pos(s))

(***************************************************************************)
(* System.scale / System.unscale, for the box value B.                     *)
(***************************************************************************)
\* scale with the origin left in
scale_keepsOrigin(B, value) == VDotM(value, Inv(B.vects))

scale(B, value) == VDotM(VSub(value, B.origin), Inv(B.vects))

unscale(B, value) == VAdd(VDotM(value, B.vects), B.origin)

\* the same on an array of 3-vectors
scaleAll(B, values) ==
    Only({MapRows(LAMBDA v : VDotM(VSub(v, B.origin), inverse), values) :
            inverse \in {Inv(B.vects)}})
unscaleAll(B, values) == MapRows(LAMBDA v : unscale(B, v), values)

Init ==
    /\ boxes = [i \in {DefaultId} |-> UnitBox]
    /\ atoms = [i \in {DefaultId} |-> DefaultAtoms]
    /\ props = [i \in {DefaultId} |-> EmptyDict]
    /\ systems = [s \in {} |-> 0]
    /\ last = NoCall
    /\ nops = 0
    /\ nwraps = 0
    /\ bondmap = NoBondAngleMap
    /\ tablefile = NoFile
    /\ iterator = NoIterator
    /\ crystal = NoRecord

Constructed == DOMAIN systems

\* a call that only returns a value: it changes no object, and the run is
\* not explored past it (any later call would see the state before it)
ReadOnly ==
    /\ nops' = MaxOps
    /\ UNCHANGED <<boxes, atoms, props, systems, nwraps, library>>

\* f with key k bound to v (added when absent)
Put(f, k, v) == [x \in DOMAIN f \cup {k} |-> IF x = k THEN v ELSE f[x]]

\* a call that raises err before it has changed anything; the exception is
\* not caught, which ends the run
Raise(s, op, arg, err) ==
    /\ last' = [op |-> op, sys |-> s, arg |-> arg, ret |-> err]
    /\ ReadOnly

\* what a call that computes a value hands back: the value, or the exception
Returned(v) == [raised |-> "none", value |-> v]
Raised(err) == [raised |-> err, value |-> <<>>]

\* np.linalg.inv raises LinAlgError on a matrix of determinant zero
Singular(B) == Det(B.vects) = RZero

\* np.asarray(value, dtype=bool): numbers become their truth value
AsBoolArray(value) ==
    IF value.dtype = "bool" THEN value.val
    ELSE [i \in DOMAIN value.val |-> value.val[i] # 0]

\* a setter that accepts any number of entries
PbcShapeOk_any(value) == TRUE

\* the assertion of the pbc setter: pbc.shape == (3,)
PbcShapeOk(value) == Len(value.val) = 3

(***************************************************************************)
(* System.__init__                                                         *)
(***************************************************************************)
Construct(s, kw) ==
    /\ nops < MaxOps
    /\ s \notin Constructed
    /\ \A t \in SysIds : t < s => t \in Constructed
    /\ \E bid \in {IF kw.box = "default" THEN DefaultId ELSE s},
          aid \in {IF kw.atoms = "default" THEN DefaultId ELSE s},
          pid \in {IF kw.prop = "default" THEN DefaultId ELSE s},
          \* the objects the caller passes exist whether or not construction succeeds
          boxes1 \in {IF kw.box \in {"default", "notabox"} THEN boxes
                      ELSE Put(boxes, s, BoxArg(kw.box))},
          atoms1 \in {IF kw.atoms \in {"default", "notatoms"} THEN atoms
                      ELSE Put(atoms, s, AtomsArg(kw.atoms))} :
        IF kw.box = "notabox" \/ kw.atoms = "notatoms"
        THEN \* assert isinstance(box, Box), assert isinstance(atoms, Atoms)
             /\ boxes' = boxes1
             /\ atoms' = atoms1
             /\ last' = [op |-> "init", sys |-> s, arg |-> kw, ret |-> "AssertionError"]
             /\ nops' = MaxOps
             /\ UNCHANGED <<props, systems, nwraps, library>>
        ELSE /\ boxes' = boxes1
             /\ atoms' = IF kw.scale
                            THEN [atoms1 EXCEPT ![aid] = unscaleAll(boxes1[bid], atoms1[aid])]
                            ELSE atoms1
             /\ IF PbcShapeOk(kw.pbc) /\ kw.prop # "notadict"
                THEN /\ props' = IF kw.prop = "default" THEN props
                                   ELSE Put(props, s, EmptyDict)
                     /\ systems' = Put(systems, s, [box |-> bid, atoms |-> aid, prop |-> pid,
                                                    pbc |-> AsBoolArray(kw.pbc)])
                     /\ last' = [op |-> "init", sys |-> s, arg |-> kw, ret |-> "none"]
                     /\ nops' = nops + 1
                ELSE \* the assertion of the pbc setter, assert isinstance(prop, dict)
                     /\ last' = [op |-> "init", sys |-> s, arg |-> kw,
                                 ret |-> "AssertionError"]
                     /\ nops' = MaxOps
                     /\ UNCHANGED <<props, systems, library>>
             /\ UNCHANGED <<nwraps, library>>

(***************************************************************************)
(* Box.set and Box.normalize (atomman Box).                                *)
(***************************************************************************)
\* Box.set(avect=, bvect=, cvect=, origin=): the box takes the given geometry
BoxSet(B, new) == [vects |-> new.vects, origin |-> new.origin]

\* Box.normalize: the cell rotated so that avect lies along x and bvect in
\* the xy plane; lengths and angles, and the origin, are kept
BoxNormalize(B) ==
    Only({ Only({ Only({ Only({ Only({
        [vects |-> << <<lx, RZero, RZero>>, <<xy, ly, RZero>>, <<xz, yz, lz>> >>,
         origin |-> B.origin]
        : lz \in {RSqrt(RSub(RSub(VDot(B.vects[3], B.vects[3]), RMul(xz, xz)),
                             RMul(yz, yz)))} })
        : yz \in {RDiv(RSub(VDot(B.vects[2], B.vects[3]), RMul(xy, xz)), ly)} })
        : ly \in {RSqrt(RSub(VDot(B.vects[2], B.vects[2]), RMul(xy, xy)))} })
        : xy \in {RDiv(VDot(B.vects[1], B.vects[2]), lx)},
          xz \in {RDiv(VDot(B.vects[1], B.vects[3]), lx)} })
        : lx \in {VNorm(B.vects[1])} })

(***************************************************************************)
(* System.box_set: the value of (box, pos) after a box_set call.           *)
(* "if not 'scale'" tests a non-empty string literal, so the first branch  *)
(* is never taken, whatever the scale argument is.                         *)
(***************************************************************************)
NotScaleLiteral == FALSE

\* box_set that keeps the absolute positions
box_set_keepsAbsolute(B, P, new, scaleArg) == [box |-> BoxSet(B, new), pos |-> P]

box_set(B, P, new, scaleArg) ==
    IF NotScaleLiteral
    THEN [box |-> BoxSet(B, new), pos |-> P]
    ELSE Only({ [box |-> B1, pos |-> unscaleAll(B1, spos)] :
                    spos \in {scaleAll(B, P)}, B1 \in {BoxSet(B, new)} })

BoxSetCall(s, new, scaleArg) ==
    /\ nops < MaxOps
    /\ s \in Constructed
    /\ IF Singular(box(s))
       THEN Raise(s, "box_set", <<new, scaleArg>>, "LinAlgError")
       ELSE \E r \in {box_set(box(s), pos(s), new, scaleArg)} :
               /\ boxes' = [boxes EXCEPT ![systems[s].box] = r.box]
               /\ atoms' = [atoms EXCEPT ![systems[s].atoms] = r.pos]
               /\ last' = [op |-> "box_set", sys |-> s, arg |-> <<new, scaleArg>>,
                           ret |-> "none"]
               /\ nops' = nops + 1
               /\ UNCHANGED <<props, systems, nwraps, library>>

(***************************************************************************)
(* System.box_normalize                                                    *)
(***************************************************************************)
\* box_normalize that keeps the absolute positions
box_normalize_keepsAbsolute(B, P) == [box |-> BoxNormalize(B), pos |-> P]

box_normalize(B, P) ==
    Only({ [box |-> B1, pos |-> unscaleAll(B1, spos)] :
              spos \in {scaleAll(B, P)}, B1 \in {BoxNormalize(B)} })

BoxNormalizeCall(s) ==
    /\ nops < MaxOps
    /\ s \in Constructed
    /\ IF Singular(box(s))
       THEN Raise(s, "box_normalize", <<>>, "LinAlgError")
       ELSE \E r \in {box_normalize(box(s), pos(s))} :
               /\ boxes' = [boxes EXCEPT ![systems[s].box] = r.box]
               /\ atoms' = [atoms EXCEPT ![systems[s].atoms] = r.pos]
               /\ last' = [op |-> "box_normalize", sys |-> s, arg |-> <<>>, ret |-> "none"]
               /\ nops' = nops + 1
               /\ UNCHANGED <<props, systems, nwraps, library>>

(***************************************************************************)
(* System.pbc setter                                                       *)
(***************************************************************************)
PbcSet(s, value) ==
    /\ nops < MaxOps
    /\ s \in Constructed
    /\ IF PbcShapeOk(value)
       THEN /\ systems' = [systems EXCEPT ![s].pbc = AsBoolArray(value)]
            /\ last' = [op |-> "pbc", sys |-> s, arg |-> value, ret |-> "none"]
            /\ nops' = nops + 1
            /\ UNCHANGED <<boxes, atoms, props, nwraps, library>>
       ELSE Raise(s, "pbc", value, "AssertionError")

(***************************************************************************)
(* System.scale and System.unscale as calls                                *)
(***************************************************************************)
VecInputs == {V(0, 0, 0), VT(5, 5, 5), VT(8, 5, 0), VT(-5, 12, 30)}

ScaleCall(s, value) ==
    /\ nops < MaxOps
    /\ s \in Constructed
    /\ last' = [op |-> "scale", sys |-> s, arg |-> value,
                ret |-> IF Singular(box(s)) THEN Raised("LinAlgError")
                        ELSE Returned(scale(box(s), value))]
    /\ ReadOnly

UnscaleCall(s, value) ==
    /\ nops < MaxOps
    /\ s \in Constructed
    /\ last' = [op |-> "unscale", sys |-> s, arg |-> value,
                ret |-> Returned(unscale(box(s), value))]
    /\ ReadOnly

(***************************************************************************)
(* System.wrap                                                             *)
(***************************************************************************)
Margin == Rat(1, 1000)

\* smallest and largest of a non-empty set of rationals
RMin(S) == CHOOSE x \in S : \A y \in S : RLe(x, y)
RMax(S) == CHOOSE x \in S : \A y \in S : RLe(y, x)

\* lower and upper fractional bound of the box along axis i after wrap
Column(S, i) == {S[a][i] : a \in DOMAIN S}

WrapMin(S, periodic, i) ==
    Only({ IF ~periodic[i] /\ RLt(min, RZero) THEN RSub(min, Margin) ELSE RZero :
              min \in {RMin(Column(S, i))} })

WrapMax(S, periodic, i) ==
    Only({ IF ~periodic[i] /\ RLt(ROne, max) THEN RAdd(max, Margin) ELSE ROne :
              max \in {RMax(Column(S, i))} })

\* wrap without the reduction on the periodic axes
WrapFold_none(v, periodic, i) == v[i]

\* spos[:, i] -= np.floor(spos[:, i]) on the periodic axes
WrapFold(v, periodic, i) == IF periodic[i] THEN RSub(v[i], RFloor(v[i])) ELSE v[i]

\* the box handed to box_set at the end of wrap
WrapBox(B, mins, maxs) ==
    [vects |-> <<VMul(RSub(maxs[1], mins[1]), B.vects[1]),
                 VMul(RSub(maxs[2], mins[2]), B.vects[2]),
                 VMul(RSub(maxs[3], mins[3]), B.vects[3])>>,
     origin |-> VAdd(B.origin, VDotM(mins, B.vects))]

\* the bounds and the folded positions computed from spos, then the atoms
\* and the box set from them
WrapScaled(B, spos0, periodic) ==
    Only({ Only({ box_set(B, P1, new, FALSE) :
                    P1 \in {unscaleAll(B, spos)}, new \in {WrapBox(B, mins, maxs)} }) :
        mins \in {<<WrapMin(spos0, periodic, 1), WrapMin(spos0, periodic, 2),
                    WrapMin(spos0, periodic, 3)>>},
        maxs \in {<<WrapMax(spos0, periodic, 1), WrapMax(spos0, periodic, 2),
                    WrapMax(spos0, periodic, 3)>>},
        spos \in {MapRows(LAMBDA v : <<WrapFold(v, periodic, 1), WrapFold(v, periodic, 2),
                                       WrapFold(v, periodic, 3)>>, spos0)} })

\* wrap that keeps only the first atom
wrap_dropsAtom(B, P, periodic) ==
    Only({ [box |-> r.box, pos |-> <<r.pos[1]>>] :
           r \in {WrapScaled(B, scaleAll(B, P), periodic)} })

wrap(B, P, periodic) ==
    Only({ WrapScaled(B, spos0, periodic) : spos0 \in {scaleAll(B, P)} })

\* wrap that also discards the stored neighbour list
WrapCall_dropsNlist(s) ==
    /\ nops < MaxOps
    /\ nwraps < MaxWraps
    /\ s \in Constructed
    /\ IF Singular(box(s))
       THEN Raise(s, "wrap", <<>>, "LinAlgError")
       ELSE \E r \in {wrap(box(s), pos(s), pbc(s))} :
               /\ boxes' = [boxes EXCEPT ![systems[s].box] = r.box]
               /\ atoms' = [atoms EXCEPT ![systems[s].atoms] = r.pos]
               /\ last' = [op |-> "wrap", sys |-> s, arg |-> <<>>, ret |-> "none"]
               /\ nops' = nops + 1
               /\ nwraps' = nwraps + 1
               /\ props' = [props EXCEPT ![systems[s].prop] =
                               [k \in DOMAIN @ \ {"nlist"} |-> @[k]]]
               /\ UNCHANGED <<systems, library>>

WrapCall(s) ==
    /\ nops < MaxOps
    /\ nwraps < MaxWraps
    /\ s \in Constructed
    /\ IF Singular(box(s))
       THEN Raise(s, "wrap", <<>>, "LinAlgError")
       ELSE \E r \in {wrap(box(s), pos(s), pbc(s))} :
               /\ boxes' = [boxes EXCEPT ![systems[s].box] = r.box]
               /\ atoms' = [atoms EXCEPT ![systems[s].atoms] = r.pos]
               /\ last' = [op |-> "wrap", sys |-> s, arg |-> <<>>, ret |-> "none"]
               /\ nops' = nops + 1
               /\ nwraps' = nwraps + 1
               /\ UNCHANGED <<props, systems, library>>

(***************************************************************************)
(* System.atoms_prop for key='pos' (Atoms.prop stores and returns the row  *)
(* of atom a_id; a_id counts from 0).                                      *)
(***************************************************************************)
PropInputs == {VT(8, 5, 0), VT(5, 5, 5)}

AtomsPropSet(s, a_id, value, scaleArg) ==
    /\ nops < MaxOps
    /\ s \in Constructed
    /\ a_id < natoms(s)
    /\ \E stored \in {IF scaleArg THEN unscale(box(s), value) ELSE value} :
        /\ atoms' = [atoms EXCEPT ![systems[s].atoms][a_id + 1] = stored]
        /\ last' = [op |-> "atoms_prop_set", sys |-> s, arg |-> <<a_id, value, scaleArg>>,
                    ret |-> "none"]
        /\ nops' = nops + 1
        /\ UNCHANGED <<boxes, props, systems, nwraps, library>>

AtomsPropGet(s, a_id, scaleArg) ==
    LET value == pos(s)[a_id + 1]
    IN  /\ nops < MaxOps
        /\ s \in Constructed
        /\ a_id < natoms(s)
        /\ last' = [op |-> "atoms_prop_get", sys |-> s, arg |-> <<a_id, scaleArg>>,
                    ret |-> IF ~scaleArg THEN Returned(value)
                            ELSE IF Singular(box(s)) THEN Raised("LinAlgError")
                            ELSE Returned(scale(box(s), value))]
        /\ ReadOnly

(***************************************************************************)
(* atomman.tools.dvect: minimum-image displacement pos_1 - pos_0.          *)
(***************************************************************************)
\* the nearest-integer reduction of a fractional displacement to [-1/2, 1/2)
Reduce(d) == RSub(d, RFloor(RAdd(d, RHalf)))

tools_dvect(pos_0, pos_1, B, periodic) ==
    Only({ VDotM(<<IF periodic[1] THEN Reduce(d[1]) ELSE d[1],
                    IF periodic[2] THEN Reduce(d[2]) ELSE d[2],
                    IF periodic[3] THEN Reduce(d[3]) ELSE d[3]>>, B.vects) :
              d \in {VDotM(VSub(pos_1, pos_0), Inv(B.vects))} })

(***************************************************************************)
(* System.dvect.  An argument is [dtype, ndim, val]: an integer (ndim 0),  *)
(* or a list of three numbers (ndim 1), of integer or float dtype.         *)
(* A resolved argument is [ok, ndim, rows].                                *)
(***************************************************************************)
DvectInputs ==
    { [dtype |-> "int", ndim |-> 0, val |-> 0],
      [dtype |-> "int", ndim |-> 0, val |-> 1],
      [dtype |-> "int", ndim |-> 0, val |-> 2],
      [dtype |-> "float", ndim |-> 1, val |-> VT(1, 0, 0)],
      [dtype |-> "float", ndim |-> 1, val |-> VT(50, 50, 5)],
      [dtype |-> "int", ndim |-> 1, val |-> <<1, 0, 0>>] }

\* self.atoms.view['pos'][index] for one index or a list of indices
Resolve(P, arg) ==
    IF arg.dtype = "int"
    THEN IF arg.ndim = 0
         THEN IF arg.val < Len(P)
              THEN [ok |-> TRUE, ndim |-> 1, rows |-> <<P[arg.val + 1]>>]
              ELSE [ok |-> FALSE, ndim |-> 0, rows |-> <<>>]
         ELSE IF \A k \in 1..3 : arg.val[k] < Len(P)
              THEN [ok |-> TRUE, ndim |-> 2,
                    rows |-> <<P[arg.val[1] + 1], P[arg.val[2] + 1], P[arg.val[3] + 1]>>]
              ELSE [ok |-> FALSE, ndim |-> 0, rows |-> <<>>]
    ELSE [ok |-> TRUE, ndim |-> 1, rows |-> <<arg.val>>]

\* numpy broadcasting of two resolved arguments
Row(r, k) == IF Len(r.rows) = 1 THEN r.rows[1] ELSE r.rows[k]

\* dvect with its two arguments exchanged
dvect_swapped(B, P, periodic, pos_0, pos_1) ==
    LET r0 == Resolve(P, pos_0)
        r1 == Resolve(P, pos_1)
        n == IF Len(r0.rows) > Len(r1.rows) THEN Len(r0.rows) ELSE Len(r1.rows)
    IN  IF ~r0.ok \/ ~r1.ok
        THEN [raised |-> "IndexError", ndim |-> 0, rows |-> <<>>]
        ELSE [raised |-> "none",
              ndim |-> IF r0.ndim > r1.ndim THEN r0.ndim ELSE r1.ndim,
              rows |-> MapRows(LAMBDA k : tools_dvect(Row(r1, k), Row(r0, k), B, periodic),
                               [k \in 1..n |-> k])]

dvect(B, P, periodic, pos_0, pos_1) ==
    LET r0 == Resolve(P, pos_0)
        r1 == Resolve(P, pos_1)
        n == IF Len(r0.rows) > Len(r1.rows) THEN Len(r0.rows) ELSE Len(r1.rows)
    IN  IF ~r0.ok \/ ~r1.ok
        THEN [raised |-> "IndexError", ndim |-> 0, rows |-> <<>>]
        ELSE [raised |-> "none",
              ndim |-> IF r0.ndim > r1.ndim THEN r0.ndim ELSE r1.ndim,
              rows |-> MapRows(LAMBDA k : tools_dvect(Row(r0, k), Row(r1, k), B, periodic),
                               [k \in 1..n |-> k])]

\* dvect that leaves the first atom at the origin of the box
DvectCall_movesAtom(s, pos_0, pos_1) ==
    /\ nops < MaxOps
    /\ s \in Constructed
    /\ last' = [op |-> "dvect", sys |-> s, arg |-> <<pos_0, pos_1>>,
                ret |-> dvect(box(s), pos(s), pbc(s), pos_0, pos_1)]
    /\ atoms' = [atoms EXCEPT ![systems[s].atoms][1] = box(s).origin]
    /\ nops' = MaxOps
    /\ UNCHANGED <<boxes, props, systems, nwraps, library>>

DvectCall(s, pos_0, pos_1) ==
    /\ nops < MaxOps
    /\ s \in Constructed
    /\ last' = [op |-> "dvect", sys |-> s, arg |-> <<pos_0, pos_1>>,
                ret |-> dvect(box(s), pos(s), pbc(s), pos_0, pos_1)]
    /\ ReadOnly

(***************************************************************************)
(* atomman.tools.nlist: the neighbour list of every atom, by spatial       *)
(* binning.  Atoms are numbered from 0.                                    *)
(***************************************************************************)
\* number of bins along axis i: floor(cell length / (cutoff / cmult)), at least 1
NBins(B, i, cutoff, cmult) ==
    Only({ IF n < 1 THEN 1 ELSE n :
              n \in {RFloor(RDiv(VNorm(B.vects[i]), RDiv(cutoff, RInt(cmult))))[1]} })

WithinCutoff(d, cutoff) == NormLe(d, cutoff)

\* the bin of fractional position v (folded into the cell on periodic axes)
BinOf(v, periodic, nb, i) ==
    RFloor(RMul(IF periodic[i] THEN RSub(v[i], RFloor(v[i])) ELSE v[i], RInt(nb[i])))[1]

\* bin y is one of the three bins centred on bin x along an axis of n bins
Adjacent(x, y, n, per) ==
    IF per
    THEN \E o \in {-1, 0, 1} : (x + o) % n = y
    ELSE y \in 0..(n - 1) /\ \E o \in {-1, 0, 1} : x + o = y

\* atom b is in one of the 27 bins scanned for atom a
Candidate(bins, nb, periodic, a, b) ==
    a # b /\ \A i \in Axes : Adjacent(bins[a][i], bins[b][i], nb[i], periodic[i])

tools_nlist(B, P, periodic, cutoff, cmult) ==
    Only({ Only({
        [a \in 0..(Len(P) - 1) |->
            {b \in 0..(Len(P) - 1) :
                /\ Candidate(bins, nb, periodic, a + 1, b + 1)
                /\ WithinCutoff(tools_dvect(P[a + 1], P[b + 1], B, periodic), cutoff)}]
        : bins \in {MapRows(LAMBDA v : <<BinOf(v, periodic, nb, 1), BinOf(v, periodic, nb, 2),
                                         BinOf(v, periodic, nb, 3)>>, spos)} })
        : spos \in {scaleAll(B, P)},
          nb \in {<<NBins(B, 1, cutoff, cmult), NBins(B, 2, cutoff, cmult),
                    NBins(B, 3, cutoff, cmult)>>} })

(***************************************************************************)
(* System.nlist                                                            *)
(***************************************************************************)
NlistInputs == {<<RInt(1), 1>>, <<RInt(2), 1>>, <<RInt(2), 2>>, <<RInt(1), 3>>,
                <<RInt(0), 1>>, <<RInt(1), 0>>}

\* nlist that discards the stored list when it fails
NlistCall_dropsOnError(s, cutoff, cmult) ==
    LET invalid == IF RLe(cutoff, RZero) THEN "InvalidCutoffError"
                   ELSE IF cmult < 1 THEN "InvalidMultiplierError" ELSE "none"
    IN  /\ nops < MaxOps
        /\ s \in Constructed
        /\ props' = IF invalid = "none"
                    THEN [props EXCEPT ![systems[s].prop] =
                            Put(@, "nlist", tools_nlist(box(s), pos(s), pbc(s), cutoff, cmult))]
                    ELSE [props EXCEPT ![systems[s].prop] =
                            [k \in DOMAIN @ \ {"nlist"} |-> @[k]]]
        /\ last' = [op |-> "nlist", sys |-> s, arg |-> <<cutoff, cmult>>, ret |-> invalid]
        /\ nops' = nops + 1
        /\ UNCHANGED <<boxes, atoms, systems, nwraps, library>>

\* nlist that stores its list in an emptied dict
NlistCall_clearsProp(s, cutoff, cmult) ==
    LET invalid == IF RLe(cutoff, RZero) THEN "InvalidCutoffError"
                   ELSE IF cmult < 1 THEN "InvalidMultiplierError" ELSE "none"
    IN  /\ nops < MaxOps
        /\ s \in Constructed
        /\ props' = IF invalid = "none"
                    THEN [props EXCEPT ![systems[s].prop] =
                            Put(EmptyDict, "nlist", tools_nlist(box(s), pos(s), pbc(s), cutoff, cmult))]
                    ELSE props
        /\ last' = [op |-> "nlist", sys |-> s, arg |-> <<cutoff, cmult>>, ret |-> invalid]
        /\ nops' = nops + 1
        /\ UNCHANGED <<boxes, atoms, systems, nwraps, library>>

NlistCall(s, cutoff, cmult) ==
    LET invalid == IF RLe(cutoff, RZero) THEN "InvalidCutoffError"
                   ELSE IF cmult < 1 THEN "InvalidMultiplierError" ELSE "none"
    IN  /\ nops < MaxOps
        /\ s \in Constructed
        /\ props' = IF invalid = "none"
                    THEN [props EXCEPT ![systems[s].prop] =
                            Put(@, "nlist", tools_nlist(box(s), pos(s), pbc(s), cutoff, cmult))]
                    ELSE props
        /\ last' = [op |-> "nlist", sys |-> s, arg |-> <<cutoff, cmult>>, ret |-> invalid]
        /\ nops' = nops + 1
        /\ UNCHANGED <<boxes, atoms, systems, nwraps, library>>

(***************************************************************************)
(* System.prop: the dict itself is returned, and the caller stores a       *)
(* system-wide property in it.                                             *)
(***************************************************************************)
PropKeys == {"label"}
PropValues == {"Al"}

PropSetItem(s, key, value) ==
    /\ nops < MaxOps
    /\ s \in Constructed
    /\ props' = [props EXCEPT ![systems[s].prop] = Put(@, key, value)]
    /\ last' = [op |-> "prop_set", sys |-> s, arg |-> <<key, value>>, ret |-> "none"]
    /\ nops' = nops + 1
    /\ UNCHANGED <<boxes, atoms, systems, nwraps, library>>

Next ==
    \/ \E s \in SysIds : \E kw \in CtorInputsOf(s) : Construct(s, kw)
    \/ \E s \in SysIds, new \in BoxInputs, sc \in BOOLEAN : BoxSetCall(s, new, sc)
    \/ \E s \in SysIds : BoxNormalizeCall(s)
    \/ \E s \in SysIds, value \in PbcArgs : PbcSet(s, value)
    \/ \E s \in SysIds, value \in VecInputs : ScaleCall(s, value)
    \/ \E s \in SysIds, value \in VecInputs : UnscaleCall(s, value)
    \/ \E s \in SysIds : WrapCall(s)
    \/ \E s \in SysIds, a_id \in 0..2, value \in PropInputs, sc \in BOOLEAN :
          AtomsPropSet(s, a_id, value, sc)
    \/ \E s \in SysIds, a_id \in 0..2, sc \in BOOLEAN : AtomsPropGet(s, a_id, sc)
    \/ \E s \in SysIds, pos_0 \in DvectInputs, pos_1 \in DvectInputs :
          DvectCall(s, pos_0, pos_1)
    \/ \E s \in SysIds, a \in NlistInputs : NlistCall(s, a[1], a[2])
    \/ \E s \in SysIds, key \in PropKeys, value \in PropValues : PropSetItem(s, key, value)

Spec == Init /\ [][Next]_vars

(***************************************************************************)
(* A System whose Box holds linearly dependent vectors, and the calls that *)
(* go through scale or unscale.                                            *)
(***************************************************************************)
\* cvect in the plane of avect and bvect; bvect parallel to avect
FlatBox == [vects |-> <<V(1, 0, 0), V(0, 1, 0), V(1, 1, 0)>>, origin |-> V(1, 0, 0)]
ParallelBox == [vects |-> <<V(2, 0, 0), V(4, 0, 0), V(0, 0, 3)>>, origin |-> VZero]
DegenerateBoxes == {FlatBox, ParallelBox}

InitDegenerate ==
    \E B \in DegenerateBoxes, P \in {AtomsA, AtomsF},
       periodic \in {<<TRUE, TRUE, TRUE>>, <<FALSE, TRUE, TRUE>>} :
        /\ boxes = Put([i \in {DefaultId} |-> UnitBox], 1, B)
        /\ atoms = Put([i \in {DefaultId} |-> DefaultAtoms], 1, P)
        /\ props = Put([i \in {DefaultId} |-> EmptyDict], 1, EmptyDict)
        /\ systems = Put([s \in {} |-> 0], 1,
                         [box |-> 1, atoms |-> 1, prop |-> 1, pbc |-> periodic])
        /\ last = NoCall
        /\ nops = 0
        /\ nwraps = 0
        /\ bondmap = NoBondAngleMap
        /\ tablefile = NoFile
        /\ iterator = NoIterator
        /\ crystal = NoRecord

NextDegenerate ==
    \/ \E value \in VecInputs : ScaleCall(1, value)
    \/ \E value \in VecInputs : UnscaleCall(1, value)
    \/ \E a_id \in 0..1, value \in PropInputs, sc \in BOOLEAN : AtomsPropSet(1, a_id, value, sc)
    \/ \E a_id \in 0..1, sc \in BOOLEAN : AtomsPropGet(1, a_id, sc)
    \/ \E new \in BoxInputs, sc \in BOOLEAN : BoxSetCall(1, new, sc)
    \/ BoxNormalizeCall(1)
    \/ WrapCall(1)

SpecDegenerate == InitDegenerate /\ [][NextDegenerate]_vars

(***************************************************************************)
(* atomman.cluster.BondAngleMap (src/atomman/cluster/BondAngleMap.py): the *)
(* energies of three-atom clusters over the coordinates r_ij, r_ik, theta. *)
(* The table df is a sequence of rows; angles are in degrees.              *)
(***************************************************************************)
MaxCalls == 4

\* np.nan, as the rational 0/0
NaN == <<0, 0>>

\* np.linspace(start, stop, num): num evenly spaced values, both ends included
Linspace(start, stop, num) ==
    [i \in 1..num |-> IF num = 1 THEN start
                      ELSE RAdd(start, RMul(Rat(i - 1, num - 1), RSub(stop, start)))]

\* np.meshgrid(x, y, z, indexing='xy'): the first two axes are exchanged
Meshgrid_xy(x, y, z) ==
    <<[i \in DOMAIN y |-> [j \in DOMAIN x |-> [k \in DOMAIN z |-> x[j]]]],
      [i \in DOMAIN y |-> [j \in DOMAIN x |-> [k \in DOMAIN z |-> y[i]]]],
      [i \in DOMAIN y |-> [j \in DOMAIN x |-> [k \in DOMAIN z |-> z[k]]]]>>

\* np.meshgrid(x, y, z, indexing='ij'): three arrays of shape
\* (len(x), len(y), len(z)) holding x[i], y[j] and z[k] at [i][j][k]
Meshgrid(x, y, z) ==
    <<[i \in DOMAIN x |-> [j \in DOMAIN y |-> [k \in DOMAIN z |-> x[i]]]],
      [i \in DOMAIN x |-> [j \in DOMAIN y |-> [k \in DOMAIN z |-> y[j]]]],
      [i \in DOMAIN x |-> [j \in DOMAIN y |-> [k \in DOMAIN z |-> z[k]]]]>>

RECURSIVE ConcatAll(_)
ConcatAll(s) == IF s = <<>> THEN <<>> ELSE Head(s) \o ConcatAll(Tail(s))

\* ndarray.flatten() of a three-dimensional array: row-major order
Flatten(a) == ConcatAll([i \in DOMAIN a |-> ConcatAll(a[i])])

\* np.allclose(x, y) for arrays of one length:
\* |x - y| <= atol + rtol * |y| with atol = 1e-8 and rtol = 1e-5
AllClose(x, y) ==
    \A i \in DOMAIN x :
        RLe(<<Abs(RSub(x[i], y[i])[1]), RSub(x[i], y[i])[2]>>,
            RAdd(Rat(1, 100000000), RMul(Rat(1, 100000), <<Abs(y[i][1]), y[i][2]>>)))

\* np.cos and np.sin of np.radians(theta), for the multiples of 90 degrees
CosDeg(theta) ==
    CASE theta[1] % 360 = 0 -> ROne
      [] theta[1] % 360 = 180 -> RInt(-1)
      [] OTHER -> RZero
SinDeg(theta) ==
    CASE theta[1] % 360 = 90 -> ROne
      [] theta[1] % 360 = 270 -> RInt(-1)
      [] OTHER -> RZero

\* the distance between atoms j and k (the inputs keep it rational)
R_jk(r_ij, r_ik, theta) ==
    RSqrt(RSub(RAdd(RMul(r_ij, r_ij), RMul(r_ik, r_ik)),
               RMul(RMul(r_ij, r_ik), RMul(RInt(2), CosDeg(theta)))))

\* the energy check, r_jk and the DataFrame at the end of set
SetTable(self, r_ij, r_ik, theta, energy) ==
    IF energy # None /\ Len(energy[1]) # Len(r_ij)
    THEN [obj |-> self, raised |-> "ValueError"]
    ELSE [obj |-> [self EXCEPT !.df =
                     [l \in DOMAIN r_ij |->
                        [r_ij |-> r_ij[l], r_ik |-> r_ik[l],
                         r_jk |-> R_jk(r_ij[l], r_ik[l], theta[l]),
                         theta |-> theta[l],
                         energy |-> IF energy = None THEN NaN ELSE energy[1][l]]]],
          raised |-> "none"]

\* self with the six range parameters assigned
WithRange(self, rmin, rmax, rnum, thetamin, thetamax, thetanum) ==
    [self EXCEPT !.rmin = rmin, !.rmax = rmax, !.rnum = rnum,
                 !.thetamin = thetamin, !.thetamax = thetamax, !.thetanum = thetanum]

\* the branch of set for explicit r_ij, r_ik, theta (of equal lengths)
SetExplicit(self, r_ij, r_ik, theta, energy) ==
    LET rmin == RMin({r_ij[l] : l \in DOMAIN r_ij})
        rmax == RMax({r_ij[l] : l \in DOMAIN r_ij})
        rnum == Cardinality({r_ij[l] : l \in DOMAIN r_ij})
        thetamin == RMin({theta[l] : l \in DOMAIN theta})
        thetamax == RMax({theta[l] : l \in DOMAIN theta})
        thetanum == Cardinality({theta[l] : l \in DOMAIN theta})
        test == Meshgrid(Linspace(rmin, rmax, rnum), Linspace(rmin, rmax, rnum),
                         Linspace(thetamin, thetamax, thetanum))
        regular == /\ Len(r_ij) = thetanum * rnum * rnum
                   /\ AllClose(r_ij, Flatten(test[1]))
                   /\ AllClose(r_ik, Flatten(test[2]))
                   /\ AllClose(theta, Flatten(test[3]))
    IN  SetTable(IF regular
                 THEN WithRange(self, Some(rmin), Some(rmax), Some(rnum),
                                Some(thetamin), Some(thetamax), Some(thetanum))
                 ELSE WithRange(self, None, None, None, None, None, None),
                 r_ij, r_ik, theta, energy)

\* BondAngleMap.set on the object value self with the keyword arguments a:
\* the object afterwards and the exception raised
set(self, a) ==
    IF a.rmin # None
    THEN IF a.r_ij # None \/ a.r_ik # None \/ a.theta # None
         THEN [obj |-> self, raised |-> "ValueError"]
         ELSE IF \/ a.rmax = None \/ a.rnum = None
                 \/ a.thetamin = None \/ a.thetamax = None \/ a.thetanum = None
                 \/ a.rnum[1] < 0
                 \/ a.thetanum[1] < 0
         THEN [obj |-> self, raised |-> "ValueError"]
         ELSE \* (the grid is bound once)
              Only({ SetTable(WithRange(self, a.rmin, a.rmax, a.rnum,
                                        a.thetamin, a.thetamax, a.thetanum),
                              Flatten(grid[1]), Flatten(grid[2]), Flatten(grid[3]),
                              a.energy) :
                     grid \in {Meshgrid(Linspace(a.rmin[1], a.rmax[1], a.rnum[1]),
                                        Linspace(a.rmin[1], a.rmax[1], a.rnum[1]),
                                        Linspace(a.thetamin[1], a.thetamax[1],
                                                 a.thetanum[1]))} })
    ELSE IF \/ a.rmax # None \/ a.rnum # None
            \/ a.thetamin # None \/ a.thetamax # None \/ a.thetanum # None
         THEN [obj |-> self, raised |-> "ValueError"]
         ELSE IF \/ a.r_ij = None \/ a.r_ik = None \/ a.theta = None
                 \/ Len(a.r_ij[1]) # Len(a.r_ik[1])
                 \/ Len(a.r_ij[1]) # Len(a.theta[1])
         THEN [obj |-> self, raised |-> "ValueError"]
         ELSE SetExplicit(self, a.r_ij[1], a.r_ik[1], a.theta[1], a.energy)

\* keyword arguments of set (and of __init__), all left at None
NoArgs ==
    [rmin |-> None, rmax |-> None, rnum |-> None,
     thetamin |-> None, thetamax |-> None, thetanum |-> None,
     r_ij |-> None, r_ik |-> None, theta |-> None, energy |-> None]

RangeArgs(rmin, rmax, rnum, thetamin, thetamax, thetanum, energy) ==
    [NoArgs EXCEPT !.rmin = Some(RInt(rmin)), !.rmax = Some(RInt(rmax)),
                   !.rnum = Some(rnum), !.thetamin = Some(RInt(thetamin)),
                   !.thetamax = Some(RInt(thetamax)), !.thetanum = Some(thetanum),
                   !.energy = energy]

ExplicitArgs(r_ij, r_ik, theta, energy) ==
    [NoArgs EXCEPT !.r_ij = Some(MapRows(RInt, r_ij)), !.r_ik = Some(MapRows(RInt, r_ik)),
                   !.theta = Some(MapRows(RInt, theta)), !.energy = energy]

\* n energies in tenths of an eV: -1.9, -1.8, ...
Energies(n) == Some([l \in 1..n |-> Rat(l - 20, 10)])

SetInputs ==
    { \* ranges: 2 x 2 x 2 rows without and with energies, 2 x 2 x 1 rows
      RangeArgs(1, 2, 2, 0, 180, 2, None),
      RangeArgs(1, 2, 2, 0, 180, 2, Energies(8)),
      RangeArgs(2, 3, 2, 180, 180, 1, Energies(4)),
      \* a range with the wrong number of energies
      RangeArgs(2, 3, 2, 180, 180, 1, Energies(8)),
      \* rmin alone; a range mixed with explicit values
      [NoArgs EXCEPT !.rmin = Some(RInt(1))],
      [RangeArgs(1, 2, 2, 0, 180, 2, None) EXCEPT !.r_ij = Some(<<RInt(1)>>)],
      \* explicit values: a regular grid, the loops in the wrong order, a
      \* single point with r_ik # r_ij, an unevenly spaced grid
      ExplicitArgs(<<1, 1, 2, 2>>, <<1, 2, 1, 2>>, <<0, 0, 0, 0>>, Energies(4)),
      ExplicitArgs(<<1, 2, 1, 2>>, <<1, 1, 2, 2>>, <<0, 0, 0, 0>>, None),
      ExplicitArgs(<<3>>, <<4>>, <<90>>, Energies(1)),
      ExplicitArgs(<<1, 1, 1, 2, 2, 2, 4, 4, 4>>, <<1, 2, 4, 1, 2, 4, 1, 2, 4>>,
                   <<0, 0, 0, 0, 0, 0, 0, 0, 0>>, None),
      \* explicit values with the wrong number of energies, of unequal
      \* lengths, mixed with rmax; no argument at all
      ExplicitArgs(<<1, 2, 1, 2>>, <<1, 1, 2, 2>>, <<0, 0, 0, 0>>, Energies(8)),
      ExplicitArgs(<<1, 2>>, <<1>>, <<0, 0>>, None),
      [ExplicitArgs(<<3>>, <<4>>, <<90>>, None) EXCEPT !.rmax = Some(RInt(3))],
      NoArgs }

\* BondAngleMap(**a): the constructor passes its arguments to set; when set
\* raises, no object comes into being
BondAngleMapInit(a) ==
    /\ nops < MaxCalls
    /\ ~bondmap.exists
    /\ \E r \in {set([NoBondAngleMap EXCEPT !.exists = TRUE], a)} :
          /\ bondmap' = IF r.raised = "none" THEN r.obj ELSE NoBondAngleMap
          /\ last' = [op |-> "BondAngleMap", sys |-> 0, arg |-> a,
                      ret |-> IF r.raised = "none" THEN Returned(<<>>)
                              ELSE Raised(r.raised)]
    /\ nops' = nops + 1
    /\ UNCHANGED <<boxes, atoms, props, systems, nwraps, tablefile, iterator, crystal>>

\* bondmap.set(**a); the exception is caught by the caller
BondAngleMapSet(a) ==
    /\ nops < MaxCalls
    /\ bondmap.exists
    /\ \E r \in {set(bondmap, a)} :
          /\ bondmap' = r.obj
          /\ last' = [op |-> "set", sys |-> 0, arg |-> a,
                      ret |-> IF r.raised = "none" THEN Returned(<<>>)
                              ELSE Raised(r.raised)]
    /\ nops' = nops + 1
    /\ UNCHANGED <<boxes, atoms, props, systems, nwraps, tablefile, iterator, crystal>>

\* BondAngleMap.model() without a model argument
BondAngleMap_model(self) ==
    IF self.rnum = None
    THEN Raised("ValueError")
    ELSE Returned([rmin |-> self.rmin[1], rmax |-> self.rmax[1], rnum |-> self.rnum[1],
                   thetamin |-> self.thetamin[1], thetamax |-> self.thetamax[1],
                   thetanum |-> self.thetanum[1],
                   energy |-> [l \in DOMAIN self.df |-> self.df[l].energy]])

BondAngleMapModel ==
    /\ nops < MaxCalls
    /\ bondmap.exists
    /\ last' = [op |-> "model", sys |-> 0, arg |-> <<>>, ret |-> BondAngleMap_model(bondmap)]
    /\ nops' = MaxCalls
    /\ UNCHANGED <<boxes, atoms, props, systems, nwraps, bondmap, tablefile, iterator, crystal>>

(***************************************************************************)
(* BondAngleMap.itersystem: a generator of three-atom Systems, one per row *)
(* of df.  Its body runs when next() is called on it; Box, Atoms and the   *)
(* System it builds are objects on the heap of atomman.core.               *)
(***************************************************************************)
\* Box(xlo=-rhi, xhi=rhi, ylo=-rhi, yhi=rhi, zlo=-1.0, zhi=1.0)
ClusterBox(rhi) ==
    [vects |-> <<<<RMul(RInt(2), rhi), RZero, RZero>>,
                 <<RZero, RMul(RInt(2), rhi), RZero>>,
                 <<RZero, RZero, RInt(2)>>>>,
     origin |-> <<RNeg(rhi), RNeg(rhi), RInt(-1)>>]

\* the pos array built for one row of coordinates
ClusterPos(row) ==
    <<VZero,
      <<row.r_ij, RZero, RZero>>,
      <<RMul(row.r_ik, CosDeg(row.theta)), RMul(row.r_ik, SinDeg(row.theta)), RZero>>>>

\* the three assignments system.atoms.pos[1,0], [2,0] and [2,1]
ClusterOverwrite(P, row) ==
    [P EXCEPT ![2][1] = row.r_ij,
              ![3][1] = RMul(row.r_ik, CosDeg(row.theta)),
              ![3][2] = RMul(row.r_ik, SinDeg(row.theta))]

\* every step writes to the System built first
YieldTarget_reused(it) ==
    IF ~it.started THEN Cardinality(DOMAIN systems) + 1 ELSE it.system

\* the System a step yields: a new one (with the next free identifier) when
\* copy is set and at the first step, the one built before the loop otherwise
YieldTarget(it) ==
    IF it.copy \/ ~it.started THEN Cardinality(DOMAIN systems) + 1 ELSE it.system

\* bondmap.itersystem(copy=copy): returns the generator, nothing has run yet
IterSystem(copy) ==
    /\ nops < MaxCalls
    /\ bondmap.exists
    /\ ~iterator.exists
    /\ iterator' = [NoIterator EXCEPT !.exists = TRUE, !.copy = copy]
    /\ last' = [op |-> "itersystem", sys |-> 0, arg |-> <<copy>>, ret |-> Returned(<<>>)]
    /\ nops' = nops + 1
    /\ UNCHANGED <<boxes, atoms, props, systems, nwraps, bondmap, tablefile, crystal>>

\* next(generator): the first call also runs the code before the loop (rhi,
\* the row labels df.index, and the System of copy=False); df.loc[i] reads
\* the table the object holds now
IterNext ==
    /\ nops < MaxCalls
    /\ iterator.exists
    /\ ~iterator.done
    /\ \E len \in {IF iterator.started THEN iterator.len ELSE Len(bondmap.df)},
          rhi \in {IF iterator.started THEN iterator.rhi
                   ELSE RMul(RInt(3), RMax({bondmap.df[l].r_ij : l \in DOMAIN bondmap.df}))},
          i \in {iterator.index + 1},
          id \in {YieldTarget(iterator)} :
          IF i > len \/ i > Len(bondmap.df)
          THEN /\ iterator' = [iterator EXCEPT !.started = TRUE, !.done = TRUE,
                                               !.len = len, !.rhi = rhi]
               /\ last' = [op |-> "next", sys |-> 0, arg |-> <<>>,
                           ret |-> Raised(IF i > len THEN "StopIteration" ELSE "KeyError")]
               /\ UNCHANGED <<boxes, atoms, props, systems>>
          ELSE /\ boxes' = IF id \in DOMAIN systems /\ ~iterator.copy THEN boxes
                           ELSE Put(boxes, id, ClusterBox(rhi))
               /\ atoms' = Put(atoms, id,
                               IF iterator.copy THEN ClusterPos(bondmap.df[i])
                               ELSE ClusterOverwrite(IF iterator.started THEN atoms[id]
                                                     ELSE <<VZero, VZero, VZero>>,
                                                     bondmap.df[i]))
               /\ props' = Put(props, id, EmptyDict)
               /\ systems' = Put(systems, id, [box |-> id, atoms |-> id, prop |-> id,
                                               pbc |-> <<FALSE, FALSE, FALSE>>])
               /\ iterator' = [iterator EXCEPT !.started = TRUE, !.len = len, !.rhi = rhi,
                                               !.index = i, !.system = id,
                                               !.coords = Append(@, bondmap.df[i]),
                                               !.yielded = Append(@, id)]
               /\ last' = [op |-> "next", sys |-> id, arg |-> <<>>, ret |-> Returned(<<>>)]
    /\ nops' = nops + 1
    /\ UNCHANGED <<nwraps, bondmap, tablefile, crystal>>

(***************************************************************************)
(* BondAngleMap.save_table and load_table.  A file is a sequence of lines; *)
(* a line is a comment or a sequence of terms; a term is the text of a     *)
(* number: its sign, its whole part and its first decimal (the energies    *)
(* and ranges used are in tenths, which 14 significant digits hold).       *)
(***************************************************************************)
FormatFloat(x) ==
    IF x = NaN
    THEN [nan |-> TRUE, neg |-> FALSE, whole |-> 0, tenths |-> 0]
    ELSE [nan |-> FALSE, neg |-> x[1] < 0,
          whole |-> Abs(x[1]) \div x[2],
          tenths |-> ((Abs(x[1]) * 10) \div x[2]) % 10]
FormatInt(n) == [nan |-> FALSE, neg |-> n < 0, whole |-> Abs(n), tenths |-> 0]

\* float(term) and int(term)
ParseFloat(term) ==
    IF term.nan THEN NaN
    ELSE Rat((IF term.neg THEN -1 ELSE 1) * (term.whole * 10 + term.tenths), 10)
ParseInt(term) == (IF term.neg THEN -1 ELSE 1) * term.whole

\* what save_table leaves in the file, and the exception it ends with: the
\* header formats rmin (TypeError on None), the loops run over range(rnum)
\* (TypeError on None) and read energy.values[l] (IndexError past the end)
save_table(self, include_header) ==
    LET comments == [n \in 1..6 |-> [comment |-> TRUE, terms |-> <<>>]]
        ranges == <<[comment |-> FALSE, terms |-> <<FormatFloat(self.rmin[1]), FormatFloat(self.rmax[1]),
                               FormatInt(self.rnum[1])>>],
                    [comment |-> FALSE, terms |-> <<FormatFloat(self.rmin[1]), FormatFloat(self.rmax[1]),
                               FormatInt(self.rnum[1])>>],
                    [comment |-> FALSE, terms |-> <<FormatFloat(self.thetamin[1]), FormatFloat(self.thetamax[1]),
                               FormatInt(self.thetanum[1])>>]>>
        triples == Flatten([i \in 1..self.rnum[1] |-> [j \in 1..self.rnum[1] |->
                               [k \in 1..self.thetanum[1] |-> <<i, j, k>>]]])
        written == IF Len(triples) > Len(self.df) THEN Len(self.df) ELSE Len(triples)
    IN  IF self.rnum = None
        THEN [lines |-> IF include_header THEN comments ELSE <<>>, raised |-> "TypeError"]
        ELSE [lines |-> (IF include_header THEN comments \o ranges ELSE <<>>) \o
                        [l \in 1..written |->
                           [comment |-> FALSE, terms |-> <<FormatInt(triples[l][1]), FormatInt(triples[l][2]),
                                      FormatInt(triples[l][3]),
                                      FormatFloat(self.df[l].energy)>>]],
              raised |-> IF Len(triples) > Len(self.df) THEN "IndexError" ELSE "none"]

\* uc.set_in_units(value, unit) for the default units, which are atomman's
\* working units
set_in_units(value, unit) ==
    RMul(value, CASE unit = "angstrom" -> ROne [] unit = "eV" -> ROne)

\* load_table on the lines of a file; garbage is what np.empty left in the
\* entries of energies that no line assigns
load_table(self, lines, garbage) ==
    LET b == SelectSeq(lines, LAMBDA ln : ~ln.comment)
        rmin == ParseFloat(b[1].terms[1])
        rmax == ParseFloat(b[1].terms[2])
        rnum == ParseInt(b[1].terms[3])
        thetamin == ParseFloat(b[3].terms[1])
        thetamax == ParseFloat(b[3].terms[2])
        thetanum == ParseInt(b[3].terms[3])
        index(n) == (ParseInt(b[n].terms[3]) - 1)
                    + (ParseInt(b[n].terms[2]) - 1) * thetanum
                    + (ParseInt(b[n].terms[1]) - 1) * rnum * thetanum
        size == rnum * rnum * thetanum
        energies == [l \in 1..size |->
                       LET hits == {n \in 4..Len(b) : index(n) = l - 1}
                       IN  IF hits = {} THEN garbage
                           ELSE ParseFloat(b[CHOOSE n \in hits : \A h \in hits : h <= n].terms[4])]
    IN  IF Len(b) = 0 THEN [obj |-> self, raised |-> "UnboundLocalError"]
        ELSE IF Len(b) = 1 THEN [obj |-> self, raised |-> "UnboundLocalError"]
        ELSE IF ~AllClose(<<rmin, rmax, RInt(rnum)>>,
                          <<ParseFloat(b[2].terms[1]), ParseFloat(b[2].terms[2]),
                            RInt(ParseInt(b[2].terms[3]))>>)
        THEN [obj |-> self, raised |-> "AssertionError"]
        ELSE IF Len(b) = 2 THEN [obj |-> self, raised |-> "UnboundLocalError"]
        ELSE IF \E n \in 4..Len(b) : index(n) >= size
        THEN [obj |-> self, raised |-> "IndexError"]
        ELSE set(self, [NoArgs EXCEPT
                          !.rmin = Some(set_in_units(rmin, "angstrom")),
                          !.rmax = Some(set_in_units(rmax, "angstrom")),
                          !.rnum = Some(rnum),
                          !.thetamin = Some(thetamin),
                          !.thetamax = Some(thetamax),
                          !.thetanum = Some(thetanum),
                          !.energy = Some([l \in 1..size |->
                                             set_in_units(energies[l], "eV")])])

\* values an uninitialized entry of np.empty may hold
Garbage == {RZero, Rat(-7, 10)}

\* bondmap.save_table(filename, include_header); the exception is caught
SaveTable(include_header) ==
    /\ nops < MaxCalls
    /\ bondmap.exists
    /\ \E r \in {save_table(bondmap, include_header)} :
          /\ tablefile' = [exists |-> TRUE, lines |-> r.lines]
          /\ last' = [op |-> "save_table", sys |-> 0, arg |-> <<include_header>>,
                      ret |-> IF r.raised = "none" THEN Returned(<<>>)
                              ELSE Raised(r.raised)]
    /\ nops' = nops + 1
    /\ UNCHANGED <<boxes, atoms, props, systems, nwraps, bondmap, iterator, crystal>>

\* bondmap.load_table(filename) on the file written before
LoadTable ==
    /\ nops < MaxCalls
    /\ bondmap.exists
    /\ tablefile.exists
    /\ \E g \in Garbage :
          \E r \in {load_table(bondmap, tablefile.lines, g)} :
              /\ bondmap' = r.obj
              /\ last' = [op |-> "load_table", sys |-> 0, arg |-> <<>>,
                          ret |-> IF r.raised = "none" THEN Returned(<<>>)
                                  ELSE Raised(r.raised)]
    /\ nops' = nops + 1
    /\ UNCHANGED <<boxes, atoms, props, systems, nwraps, tablefile, iterator, crystal>>

NextBondAngleMap ==
    \/ \E a \in SetInputs : BondAngleMapInit(a)
    \/ \E a \in SetInputs : BondAngleMapSet(a)
    \/ BondAngleMapModel
    \/ \E copy \in BOOLEAN : IterSystem(copy)
    \/ IterNext
    \/ \E include_header \in BOOLEAN : SaveTable(include_header)
    \/ LoadTable

SpecBondAngleMap == Init /\ [][NextBondAngleMap]_vars

(***************************************************************************)
(* atomman.library.record.RelaxedCrystal                                   *)
(* (src/atomman/library/record/RelaxedCrystal.py).  A model is a function  *)
(* from element paths below the root 'relaxed-crystal' to contents; the    *)
(* Systems built for ucell are numbered, built[id] being the model the     *)
(* System with that number was built from.                                 *)
(***************************************************************************)
\* where load_model reads each attribute from
LoadPaths ==
    [key |-> <<"key">>, method |-> <<"method">>, standing |-> <<"standing">>,
     potential_LAMMPS_id |-> <<"potential-LAMMPS", "id">>,
     potential_LAMMPS_key |-> <<"potential-LAMMPS", "key">>,
     potential_id |-> <<"potential-LAMMPS", "potential", "id">>,
     potential_key |-> <<"potential-LAMMPS", "potential", "key">>,
     family |-> <<"system-info", "family">>,
     parent_key |-> <<"system-info", "parent_key">>,
     symbols |-> <<"system-info", "symbol">>,
     composition |-> <<"system-info", "composition">>,
     crystalfamily |-> <<"system-info", "cell", "crystal-family">>,
     natypes |-> <<"system-info", "cell", "natypes">>,
     a |-> <<"system-info", "cell", "a">>,
     b |-> <<"system-info", "cell", "b">>,
     c |-> <<"system-info", "cell", "c">>,
     alpha |-> <<"system-info", "cell", "alpha">>,
     beta |-> <<"system-info", "cell", "beta">>,
     gamma |-> <<"system-info", "cell", "gamma">>,
     natoms |-> <<"atomic-system", "atoms", "natoms">>,
     potential_energy |-> <<"potential-energy">>,
     cohesive_energy |-> <<"cohesive-energy">>]

\* two records: every element holds a content of its own, <<tag, path>>,
\* and the energies a value with its unit
ModelInputs ==
    { [p \in {LoadPaths[n] : n \in DOMAIN LoadPaths} |->
         IF p \in {<<"potential-energy">>, <<"cohesive-energy">>}
         THEN [value |-> Rat((IF tag = "A" THEN -336 ELSE -410)
                             + (IF p = <<"cohesive-energy">> THEN 1 ELSE 0), 100),
               unit |-> "eV"]
         ELSE <<tag, p>>] : tag \in {"A", "B"} }

\* load_model that keeps the System cached for ucell
load_model_keepsUcell(self, model, name) ==
    [self EXCEPT
       !.model = Some(model),
       !.values = Some([n \in DOMAIN LoadPaths |->
                          IF n \in {"potential_energy", "cohesive_energy"}
                          THEN set_in_units(model[LoadPaths[n]].value,
                                            model[LoadPaths[n]].unit)
                          ELSE IF n = "symbols" THEN <<model[LoadPaths[n]]>>
                          ELSE model[LoadPaths[n]]]),
       !.name = IF name # None THEN name
                ELSE IF self.name # None THEN self.name
                ELSE Some(model[LoadPaths["key"]])]

\* RelaxedCrystal.load_model(model, name): every attribute is read from the
\* model, the cached ucell is dropped, the name defaults to the key
load_model(self, model, name) ==
    [self EXCEPT
       !.model = Some(model),
       !.values = Some([n \in DOMAIN LoadPaths |->
                          IF n \in {"potential_energy", "cohesive_energy"}
                          THEN set_in_units(model[LoadPaths[n]].value,
                                            model[LoadPaths[n]].unit)
                          ELSE IF n = "symbols" THEN <<model[LoadPaths[n]]>>
                          ELSE model[LoadPaths[n]]]),
       !.ucell = None,
       !.name = IF name # None THEN name
                ELSE IF self.name # None THEN self.name
                ELSE Some(model[LoadPaths["key"]])]

\* the query paths declared by the queries property
queries ==
    [key |-> <<"relaxed-crystal", "key">>,
     method |-> <<"relaxed-crystal", "id">>,
     standing |-> <<"relaxed-crystal", "name">>,
     family |-> <<"relaxed-crystal", "prototype">>,
     parent_key |-> <<"relaxed-crystal", "Pearson-symbol">>,
     potential_LAMMPS_id |-> <<"relaxed-crystal", "Strukturbericht">>,
     potential_LAMMPS_key |-> <<"relaxed-crystal", "space-group", "number">>,
     potential_id |-> <<"relaxed-crystal", "space-group", "Hermann-Maguin">>,
     potential_key |-> <<"relaxed-crystal", "space-group", "Schoenflies">>,
     composition |-> <<"relaxed-crystal", "system-info", "cell", "crystal-family">>,
     symbols |-> <<"relaxed-crystal", "system-info", "cell", "natypes">>,
     natoms |-> <<"relaxed-crystal", "system-info", "cell", "natypes">>,
     natypes |-> <<"relaxed-crystal", "system-info", "cell", "natypes">>]

\* the filter keywords of cdcsquery (pandasfilter and mongoquery accept
\* these and name)
FilterKeywords ==
    {"key", "method", "standing", "family", "parent_key", "potential_LAMMPS_id",
     "potential_LAMMPS_key", "potential_id", "potential_key", "crystalfamily",
     "composition", "symbols", "natoms", "natypes"}

\* what reading self.model gives.  On a record that loaded no model,
\* Record.__init__ has not run either (the constructor calls it only with a
\* model), so the attribute behind the property was never assigned: the read
\* gives None or fails in the attribute lookup.
ReadModel(self) ==
    IF self.model # None THEN {Returned(self.model)}
    ELSE {Returned(None), Raised("AttributeError")}

\* the data properties and build_model, given what reading self.model gave
Getter(self, name, read) ==
    IF read.raised # "none" THEN read
    ELSE IF read.value = None THEN Raised("AttributeError('No model information loaded')")
    ELSE IF name = "build_model" THEN Returned(self.model[1])
    ELSE Returned(self.values[1][name])

\* RelaxedCrystal(model=model, name=name)
RecordInit(model, name) ==
    /\ nops < MaxCalls
    /\ ~crystal.exists
    /\ crystal' = IF model # None
                  THEN load_model([NoRecord EXCEPT !.exists = TRUE], model[1], name)
                  ELSE [NoRecord EXCEPT !.exists = TRUE, !.name = name]
    /\ last' = [op |-> "RelaxedCrystal", sys |-> 0, arg |-> <<model, name>>,
                ret |-> Returned(<<>>)]
    /\ nops' = nops + 1
    /\ UNCHANGED <<boxes, atoms, props, systems, nwraps, bondmap, tablefile, iterator>>

\* crystal.load_model(model, name=name)
RecordLoadModel(model, name) ==
    /\ nops < MaxCalls
    /\ crystal.exists
    /\ crystal' = load_model(crystal, model, name)
    /\ last' = [op |-> "load_model", sys |-> 0, arg |-> <<Some(model), name>>,
                ret |-> Returned(<<>>)]
    /\ nops' = nops + 1
    /\ UNCHANGED <<boxes, atoms, props, systems, nwraps, bondmap, tablefile, iterator>>

\* crystal.<name> for a data property, crystal.build_model() and
\* crystal.queries: nothing changes
RecordGet(name) ==
    /\ nops < MaxCalls
    /\ crystal.exists
    /\ \E read \in ReadModel(crystal) :
          last' = [op |-> "get", sys |-> 0, arg |-> <<name>>,
                   ret |-> IF name = "queries" THEN Returned(queries)
                           ELSE Getter(crystal, name, read)]
    /\ nops' = MaxCalls
    /\ UNCHANGED <<boxes, atoms, props, systems, nwraps, library>>

\* crystal.ucell: the System is built from the model at the first access
\* and kept
RecordUcell ==
    /\ nops < MaxCalls
    /\ crystal.exists
    /\ \E read \in ReadModel(crystal) :
          IF read.raised # "none" \/ read.value = None
          THEN /\ last' = [op |-> "ucell", sys |-> 0, arg |-> <<>>,
                           ret |-> Getter(crystal, "ucell", read)]
               /\ UNCHANGED crystal
          ELSE IF crystal.ucell = None
          THEN /\ crystal' = [crystal EXCEPT !.built = Append(@, read.value[1]),
                                             !.ucell = Some(Len(crystal.built) + 1)]
               /\ last' = [op |-> "ucell", sys |-> 0, arg |-> <<>>,
                           ret |-> Returned(Len(crystal.built) + 1)]
          ELSE /\ last' = [op |-> "ucell", sys |-> 0, arg |-> <<>>,
                           ret |-> Returned(crystal.ucell[1])]
               /\ UNCHANGED crystal
    /\ nops' = nops + 1
    /\ UNCHANGED <<boxes, atoms, props, systems, nwraps, bondmap, tablefile, iterator>>

NextRecord ==
    \/ \E model \in {None} \cup {Some(m) : m \in ModelInputs}, name \in {None, Some("rc")} :
          RecordInit(model, name)
    \/ \E model \in ModelInputs, name \in {None, Some("rc")} : RecordLoadModel(model, name)
    \/ \E name \in DOMAIN LoadPaths \cup {"build_model", "queries"} : RecordGet(name)
    \/ RecordUcell

SpecRecord == Init /\ [][NextRecord]_vars

(***************************************************************************)
(* Properties.                                                             *)
(***************************************************************************)
\* the System on which the last call was made
Acted(op) == last.op = op /\ last.sys \in Constructed
ActedNext(s, op) == last'.op = op /\ last'.sys = s

IsOrthogonal(B) == \A i, j \in Axes : i # j => B.vects[i][j] = RZero

\* C1: box_set called with scale=False leaves the absolute position of every
\* atom unchanged while the box is replaced.
C1_BoxSetKeepsAbsolute ==
    [][\A s \in Constructed :
          (ActedNext(s, "box_set") /\ last'.arg[2] = FALSE) => pos(s)' = pos(s)]_vars

\* C2: wrap is idempotent: a second wrap right after a wrap changes neither
\* the box vectors, nor the box origin, nor any atom position.
C2_WrapIdempotent ==
    Acted("wrap") =>
        LET s == last.sys
        IN  wrap(box(s), pos(s), pbc(s)) = [box |-> box(s), pos |-> pos(s)]

\* C3: on a non-periodic axis of an orthogonal box wrap leaves every atom's
\* absolute coordinate unchanged and only moves the box bounds; for an atom
\* at x=-0.5 in a box with xlo=0, xhi=10 the box xlo becomes <= -0.501 and
\* the atom stays at x=-0.5.
C3_WrapNonPeriodicKeepsAtoms ==
    [][\A s \in Constructed :
          (ActedNext(s, "wrap") /\ IsOrthogonal(box(s))) =>
              /\ \A a \in DOMAIN pos(s) : \A i \in Axes :
                    ~pbc(s)[i] => pos(s)'[a][i] = pos(s)[a][i]
              /\ (box(s) = Cubic10 /\ ~pbc(s)[1] /\ pos(s)[1] = VT(-5, 0, 0)) =>
                    /\ RLe(box(s)'.origin[1], Rat(-501, 1000))
                    /\ pos(s)'[1] = VT(-5, 0, 0)]_vars

\* C4: after wrap every atom lies inside the resulting box along every
\* non-periodic axis: its fractional coordinate there is within [0, 1].
C4_WrapEnclosesAtoms ==
    Acted("wrap") =>
        LET s == last.sys
            spos == scaleAll(box(s), pos(s))
        IN  \A a \in DOMAIN spos : \A i \in Axes :
                ~pbc(s)[i] => RLe(RZero, spos[a][i]) /\ RLe(spos[a][i], ROne)

GeometryCalls == {"wrap", "box_set", "box_normalize", "atoms_prop_set"}

HasNlist(s) == "nlist" \in DOMAIN prop(s)

ValidNlistInputs == {a \in NlistInputs : RLt(RZero, a[1]) /\ a[2] >= 1}

\* C5 (as stated): once positions or the box of a System have changed after
\* nlist was computed, the list under 'nlist' is no longer readable with its
\* old contents.
C5_StaleListInvalidated ==
    [][\A s \in Constructed :
          (HasNlist(s) /\ (pos(s)' # pos(s) \/ box(s)' # box(s))) =>
              ~(HasNlist(s)' /\ prop(s)'["nlist"] = prop(s)["nlist"])]_vars

\* C5 (amended): wrap, box_set, box_normalize and a position assignment via
\* atoms_prop leave the list stored under 'nlist' exactly as it was, so a
\* stale list stays readable until nlist is called again.
C5_StaleListStaysReadable ==
    [][\A s \in Constructed :
          (HasNlist(s) /\ last'.op \in GeometryCalls) =>
              (HasNlist(s)' /\ prop(s)'["nlist"] = prop(s)["nlist"])]_vars

\* a geometry call was made and the stored list is not the neighbour list
\* of the present geometry, whatever cutoff and cmult are used
C5_Witness ==
    /\ last.op \in GeometryCalls
    /\ last.sys \in Constructed
    /\ HasNlist(last.sys)
    /\ \A a \in ValidNlistInputs :
          prop(last.sys)["nlist"] #
              tools_nlist(box(last.sys), pos(last.sys), pbc(last.sys), a[1], a[2])

\* C6: a call on one System (nlist, box_set, wrap, atoms_prop assignment)
\* leaves the prop, the box and the atom positions of every other System
\* unchanged (no caller of the model passes one object to two Systems).
C6_NoAliasing ==
    [][\A s, t \in Constructed :
          (s # t /\ last'.sys = s
                 /\ last'.op \in {"nlist", "box_set", "wrap", "atoms_prop_set"}) =>
              (prop(t)' = prop(t) /\ box(t)' = box(t) /\ pos(t)' = pos(t))]_vars

\* C7: unscale(scale(v)) = v and scale(unscale(v)) = v in the box of every
\* System; scale maps the box origin to zero and unscale maps zero to it.
C7_ScaleUnscaleRoundTrip ==
    /\ Acted("scale") => unscale(box(last.sys), last.ret.value) = last.arg
    /\ Acted("unscale") => scale(box(last.sys), last.ret.value) = last.arg
    /\ \A s \in Constructed :
          /\ scale(box(s), box(s).origin) = VZero
          /\ unscale(box(s), VZero) = box(s).origin

\* scale was called with a non-zero vector in a tilted box with a shifted origin
C7_Witness ==
    /\ Acted("scale")
    /\ ~IsOrthogonal(box(last.sys))
    /\ box(last.sys).origin # VZero
    /\ last.arg # VZero
    /\ last.ret.value # last.arg

\* C8: dvect(i, j) = -dvect(j, i) for all atoms or positions i, j.
C8_DvectAntisymmetric ==
    (Acted("dvect") /\ last.ret.raised = "none") =>
        LET s == last.sys
            rev == dvect(box(s), pos(s), pbc(s), last.arg[2], last.arg[1])
        IN  rev.rows = MapRows(VNeg, last.ret.rows)

\* all pairs within the cutoff by minimum-image distance, self-pairs excluded
BruteForce(B, P, periodic, cutoff) ==
    [a \in 0..(Len(P) - 1) |->
        {b \in 0..(Len(P) - 1) :
            a # b /\ WithinCutoff(tools_dvect(P[a + 1], P[b + 1], B, periodic), cutoff)}]

Pairs(nl) == UNION {{{a, b} : b \in nl[a]} : a \in DOMAIN nl}

\* C9: the list stored by nlist(cutoff, cmult) holds the same unordered pairs
\* as the brute-force search, for every cmult in {1, 2, 3}.
C9_NlistMatchesBruteForce ==
    (Acted("nlist") /\ last.ret = "none") =>
        LET s == last.sys
        IN  Pairs(prop(s)["nlist"]) = Pairs(BruteForce(box(s), pos(s), pbc(s), last.arg[1]))

IsIndex(arg, i) == arg.dtype = "int" /\ arg.ndim = 0 /\ arg.val = i

\* the cubic box of side 10, fully periodic, with atoms at (0.1,0,0), (9.9,0,0)
Scenario10(s) ==
    box(s) = Cubic10 /\ pbc(s) = <<TRUE, TRUE, TRUE>> /\ pos(s) = AtomsA

\* C10: the fractional displacement of dvect's result lies in [-1/2, 1/2) on
\* every periodic axis, where it differs from that of pos_1 - pos_0 by an
\* integer, and equals that of pos_1 - pos_0 on every non-periodic axis; in
\* the cubic scenario dvect(0, 1) = (-0.2, 0, 0) and nlist(cutoff=1.0) lists
\* each atom as the other's only neighbour.
C10_DvectMinimumImage ==
    /\ (Acted("dvect") /\ last.ret.raised = "none") =>
          LET s == last.sys
              inverse == Inv(box(s).vects)
              r0 == Resolve(pos(s), last.arg[1])
              r1 == Resolve(pos(s), last.arg[2])
          IN  \A k \in DOMAIN last.ret.rows :
                 LET raw == VDotM(VSub(Row(r1, k), Row(r0, k)), inverse)
                     fd == VDotM(last.ret.rows[k], inverse)
                 IN  \A i \in Axes :
                        IF pbc(s)[i]
                        THEN /\ RLe(RNeg(RHalf), fd[i])
                             /\ RLt(fd[i], RHalf)
                             /\ RSub(raw[i], fd[i])[2] = 1
                        ELSE fd[i] = raw[i]
    /\ (Acted("dvect") /\ Scenario10(last.sys)
          /\ IsIndex(last.arg[1], 0) /\ IsIndex(last.arg[2], 1)) =>
          last.ret.rows = <<VT(-2, 0, 0)>>
    /\ (Acted("nlist") /\ Scenario10(last.sys) /\ last.arg = <<RInt(1), 1>>) =>
          prop(last.sys)["nlist"] = [a \in 0..1 |-> {1 - a}]

\* dvect(0, 1) was called in the cubic scenario
C10_Witness ==
    /\ Acted("dvect")
    /\ Scenario10(last.sys)
    /\ IsIndex(last.arg[1], 0)
    /\ IsIndex(last.arg[2], 1)
    /\ last.ret.raised = "none"

\* a dvect argument read as the claim reads it: an index stands for that
\* atom's position, a list of three numbers is a position
AsPosition(P, arg) ==
    IF arg.ndim = 0 THEN P[arg.val + 1]
    ELSE IF arg.dtype = "int" THEN V(arg.val[1], arg.val[2], arg.val[3])
    ELSE arg.val

IndexInRange(P, arg) == arg.ndim = 0 => arg.val < Len(P)

\* C11: in dvect an argument given as a 3-vector is used as a position, also
\* when its components are integers, and an argument given as an atom index
\* is replaced by that atom's position before the distance is computed.
C11_DvectVectorsArePositions ==
    (/\ Acted("dvect")
     /\ IndexInRange(pos(last.sys), last.arg[1])
     /\ IndexInRange(pos(last.sys), last.arg[2])) =>
        last.ret = [raised |-> "none", ndim |-> 1,
                    rows |-> <<tools_dvect(AsPosition(pos(last.sys), last.arg[1]),
                                           AsPosition(pos(last.sys), last.arg[2]),
                                           box(last.sys), pbc(last.sys))>>]

\* C12: box_set called with scale=True keeps the fractional position of
\* every atom: scale(pos) in the new box equals scale(pos) in the old box,
\* and the absolute positions are recomputed from it.
C12_BoxSetScaleKeepsFractional ==
    [][\A s \in Constructed :
          (ActedNext(s, "box_set") /\ last'.arg[2] = TRUE /\ last'.ret = "none") =>
              /\ scaleAll(box(s)', pos(s)') = scaleAll(box(s), pos(s))
              /\ pos(s)' = unscaleAll(box(s)', scaleAll(box(s), pos(s)))
              /\ box(s)' = last'.arg[1]]_vars

\* box_set(scale=True) has put three atoms, built in the cubic box, into
\* the tilted box
C12_Witness ==
    /\ Acted("box_set")
    /\ last.arg[2] = TRUE
    /\ last.ret = "none"
    /\ box(last.sys) = SkewBox
    /\ natoms(last.sys) = 3

\* C13: box_normalize keeps the fractional position of every atom: the
\* fractional coordinates in the normalized box equal those in the box
\* before normalization.
C13_NormalizeKeepsFractional ==
    [][\A s \in Constructed :
          (ActedNext(s, "box_normalize") /\ last'.ret = "none") =>
              /\ scaleAll(box(s)', pos(s)') = scaleAll(box(s), pos(s))
              /\ box(s)' = BoxNormalize(box(s))]_vars

\* box_normalize has acted on a tilted box holding an atom away from the
\* origin of the box
C13_Witness ==
    /\ Acted("box_normalize")
    /\ last.ret = "none"
    /\ box(last.sys).vects[2][1] # RZero
    /\ \E a \in DOMAIN pos(last.sys) : pos(last.sys)[a] # box(last.sys).origin

\* C14: after wrap, on every periodic axis the fractional coordinate of each
\* atom with respect to the box after the wrap lies in [0, 1).
C14_WrapPeriodicInUnitInterval ==
    (Acted("wrap") /\ last.ret = "none") =>
        \A spos \in {scaleAll(box(last.sys), pos(last.sys))} :
            \A a \in DOMAIN spos : \A i \in Axes :
                pbc(last.sys)[i] => RLe(RZero, spos[a][i]) /\ RLt(spos[a][i], ROne)

\* wrap has brought the atom built at x = -0.5 to x = 9.5 in the periodic
\* cubic box
C14_Witness ==
    /\ Acted("wrap")
    /\ last.ret = "none"
    /\ pbc(last.sys)[1]
    /\ box(last.sys) = Cubic10
    /\ pos(last.sys)[1] = VT(95, 0, 0)

\* exactly three entries, each of them a boolean
ThreeBooleans(value) == value.dtype = "bool" /\ Len(value.val) = 3

\* C15: assigning pbc a value that is not exactly three booleans (a wrong
\* number of entries, or entries such as integers) is rejected (the setter's
\* assertion is the code's InvalidPBCError), and the stored pbc is unchanged.
C15_BadPbcRejected ==
    [][\A s \in Constructed :
          (ActedNext(s, "pbc") /\ ~ThreeBooleans(last'.arg)) =>
              (last'.ret = "AssertionError" /\ pbc(s)' = pbc(s))]_vars

\* C16: when construction fails validation, the Atoms the caller passed
\* still holds its original positions, also when scale=True was requested.
C16_FailedConstructionKeepsAtoms ==
    (last.op = "init" /\ last.ret # "none" /\ last.arg.atoms \in {"A", "B", "F"}) =>
        atoms[last.sys] = AtomsArg(last.arg.atoms)

C18_NlistStoresList ==
    [][\A s \in Constructed :
          (ActedNext(s, "nlist") /\ last'.ret = "none") =>
              /\ DOMAIN prop(s)' = DOMAIN prop(s) \cup {"nlist"}
              /\ prop(s)'["nlist"] =
                    tools_nlist(box(s), pos(s), pbc(s), last'.arg[1], last'.arg[2])
              /\ \A k \in DOMAIN prop(s) \ {"nlist"} : prop(s)'[k] = prop(s)[k]]_vars

\* nlist has stored a non-empty list in a dict that holds another entry
C18_Witness ==
    /\ Acted("nlist")
    /\ last.ret = "none"
    /\ "label" \in DOMAIN prop(last.sys)
    /\ \E a \in DOMAIN prop(last.sys)["nlist"] : prop(last.sys)["nlist"][a] # {}

\* C19: in every reachable state the pbc of a constructed System has
\* exactly 3 entries, each a boolean.
C19_PbcThreeBooleans ==
    \A s \in Constructed :
        /\ Len(pbc(s)) = 3
        /\ \A i \in 1..3 : pbc(s)[i] \in BOOLEAN

\* pbc was assigned three integers, and another assignment was rejected
C19_Witness ==
    /\ Acted("pbc")
    /\ last.arg = Ints(<<1, 0, 1>>)
    /\ last.ret = "none"
    /\ pbc(last.sys) = <<TRUE, FALSE, TRUE>>

C21_NatomsFixed ==
    [][\A s \in Constructed : natoms(s)' = natoms(s)]_vars

C21_Witness ==
    /\ Acted("nlist")
    /\ last.ret = "none"
    /\ nwraps = 1
    /\ natoms(last.sys) = 3

\* C30: a dvect call changes no object at all; an nlist call changes neither
\* the atoms, the boxes nor any System (so no position, vector, origin or
\* pbc), and of the dicts it changes nothing but the 'nlist' entry of the
\* System's own prop.
C30_DvectNlistReadOnly ==
    [][/\ last'.op = "dvect" => UNCHANGED <<boxes, atoms, props, systems>>
       /\ last'.op = "nlist" =>
             /\ UNCHANGED <<boxes, atoms, systems>>
             /\ DOMAIN props' = DOMAIN props
             /\ \A i \in DOMAIN props :
                   /\ i # systems[last'.sys].prop => props'[i] = props[i]
                   /\ DOMAIN props'[i] \ {"nlist"} = DOMAIN props[i] \ {"nlist"}
                   /\ \A k \in DOMAIN props[i] \ {"nlist"} :
                         props'[i][k] = props[i][k]]_vars

C30_Witness ==
    /\ Acted("dvect")
    /\ last.ret.raised = "none"
    /\ HasNlist(last.sys)
    /\ pos(last.sys) # DefaultAtoms

\* the table rows conform to embedded loops over evenly spaced values, r_ij
\* outermost, r_ik in the middle and theta innermost
IsGrid(df, rnum, thetanum) ==
    /\ Len(df) = rnum * rnum * thetanum
    /\ \A i \in 0..(rnum - 1), j \in 0..(rnum - 1), k \in 0..(thetanum - 1) :
          LET row == df[(i * rnum + j) * thetanum + k + 1]
              rvals == Linspace(RMin({df[l].r_ij : l \in DOMAIN df}),
                                RMax({df[l].r_ij : l \in DOMAIN df}), rnum)
              tvals == Linspace(RMin({df[l].theta : l \in DOMAIN df}),
                                RMax({df[l].theta : l \in DOMAIN df}), thetanum)
          IN  /\ row.r_ij = rvals[i + 1]
              /\ row.r_ik = rvals[j + 1]
              /\ row.theta = tvals[k + 1]
Regular(df) ==
    \E rnum \in 1..Len(df), thetanum \in 1..Len(df) : IsGrid(df, rnum, thetanum)

SetCalls == {"BondAngleMap", "set"}

\* C22: after a set (or a construction) with range parameters that returned,
\* df has exactly rnum*rnum*thetanum rows, and row (i*rnum + j)*thetanum + k
\* holds r_ij = rvals[i], r_ik = rvals[j], theta = tvals[k] and the energy
\* given at that position, or NaN when no energy was given.
C22_RangeTableOrder ==
    (last.op \in SetCalls /\ last.ret.raised = "none" /\ last.arg.rmin # None) =>
        LET a == last.arg
            rnum == a.rnum[1]
            thetanum == a.thetanum[1]
            rval(i) == IF rnum = 1 THEN a.rmin[1]
                       ELSE RAdd(a.rmin[1], RDiv(RMul(RInt(i), RSub(a.rmax[1], a.rmin[1])),
                                                 RInt(rnum - 1)))
            tval(k) == IF thetanum = 1 THEN a.thetamin[1]
                       ELSE RAdd(a.thetamin[1],
                                 RDiv(RMul(RInt(k), RSub(a.thetamax[1], a.thetamin[1])),
                                      RInt(thetanum - 1)))
        IN  /\ Len(bondmap.df) = rnum * rnum * thetanum
            /\ \A i \in 0..(rnum - 1), j \in 0..(rnum - 1), k \in 0..(thetanum - 1) :
                  LET l == (i * rnum + j) * thetanum + k + 1
                  IN  /\ bondmap.df[l].r_ij = rval(i)
                      /\ bondmap.df[l].r_ik = rval(j)
                      /\ bondmap.df[l].theta = tval(k)
                      /\ bondmap.df[l].energy =
                            IF a.energy = None THEN NaN ELSE a.energy[1][l]

C22_Witness ==
    /\ last.op = "set"
    /\ last.ret.raised = "none"
    /\ last.arg = RangeArgs(1, 2, 2, 0, 180, 2, Energies(8))
    /\ Len(bondmap.df) = 8
    /\ bondmap.df[2].theta = RInt(180)
    /\ bondmap.df[3].r_ik = RInt(2)

\* C23: model() without argument raises ValueError exactly when the rows
\* held are not such a grid; and after a set with explicit values the six
\* range parameters are recorded when the values form such a grid and are
\* all None otherwise.
C23_ModelRaisesIffIrregular ==
    /\ last.op = "model" =>
          (last.ret.raised = "ValueError" <=> ~Regular(bondmap.df))
    /\ (last.op \in SetCalls /\ last.ret.raised = "none" /\ last.arg.rmin = None) =>
          IF Regular(bondmap.df)
          THEN /\ bondmap.rnum # None
               /\ bondmap.thetanum # None
               /\ IsGrid(bondmap.df, bondmap.rnum[1], bondmap.thetanum[1])
               /\ bondmap.rmin = Some(RMin({bondmap.df[l].r_ij : l \in DOMAIN bondmap.df}))
               /\ bondmap.rmax = Some(RMax({bondmap.df[l].r_ij : l \in DOMAIN bondmap.df}))
               /\ bondmap.thetamin =
                     Some(RMin({bondmap.df[l].theta : l \in DOMAIN bondmap.df}))
               /\ bondmap.thetamax =
                     Some(RMax({bondmap.df[l].theta : l \in DOMAIN bondmap.df}))
          ELSE /\ bondmap.rmin = None /\ bondmap.rmax = None /\ bondmap.rnum = None
               /\ bondmap.thetamin = None /\ bondmap.thetamax = None
               /\ bondmap.thetanum = None

\* C24: with copy=False every step yields one and the same System, whose
\* positions are those of the coordinates yielded last; with copy=True the
\* Systems yielded are distinct objects and each keeps the positions of its
\* own step.
C24_ItersystemSharing ==
    (iterator.exists /\ iterator.yielded # <<>>) =>
        LET y == iterator.yielded
        IN  IF iterator.copy
            THEN /\ \A m, n \in DOMAIN y :
                       m # n => /\ y[m] # y[n]
                                /\ systems[y[m]].atoms # systems[y[n]].atoms
                                /\ systems[y[m]].box # systems[y[n]].box
                 /\ \A n \in DOMAIN y : pos(y[n]) = ClusterPos(iterator.coords[n])
            ELSE /\ \A n \in DOMAIN y : y[n] = y[1]
                 /\ pos(y[1]) = ClusterPos(iterator.coords[Len(y)])

C24_Witness ==
    /\ iterator.exists
    /\ iterator.copy
    /\ Len(iterator.yielded) = 2
    /\ iterator.coords[1].r_ik # iterator.coords[2].r_ik
    /\ pos(iterator.yielded[1]) # pos(iterator.yielded[2])

\* C26: a set that raises leaves the object as it was: the six range
\* parameters and df keep their values.
C26_FailingSetKeepsObject ==
    [][(last'.op = "set" /\ last'.ret.raised # "none") => bondmap' = bondmap]_vars

\* C27: load_table called right after a save_table that returned gives back
\* the energies of the table in the same order.
C27_SaveLoadRestoresEnergies ==
    [][(last.op = "save_table" /\ last.ret.raised = "none" /\ last'.op = "load_table") =>
          /\ last'.ret.raised = "none"
          /\ [l \in DOMAIN bondmap'.df |-> bondmap'.df[l].energy]
                = [l \in DOMAIN bondmap.df |-> bondmap.df[l].energy]]_vars

C29_QueriesMatchLoadPaths ==
    (last.op = "get" /\ last.arg = <<"queries">>) =>
        /\ \A n \in DOMAIN last.ret.value :
              /\ n \in DOMAIN LoadPaths
              /\ last.ret.value[n] = <<"relaxed-crystal">> \o LoadPaths[n]
        /\ FilterKeywords \subseteq DOMAIN last.ret.value

====
